---- MODULE Spec2Model ----
(***************************************************************************)
(* pdb-addr2line: the Context of src/src/lib.rs.  The procedure index      *)
(* built by Context::new_from_parts, the lookups find_function and         *)
(* find_frames with their two caches, the inline-range table and the       *)
(* procedure iterator.                                                     *)
(*                                                                         *)
(* u32 values are kept modulo 2^U32Bits.  Option<T> is a tuple: None is    *)
(* <<>> and Some(x) is <<x>>.  Rust indices are 0-based; a TLA+ sequence   *)
(* holds element i of a Vec at position i + 1.                             *)
(***************************************************************************)
EXTENDS Integers, Sequences, FiniteSets, TLC

VARIABLES
    modules,          \* ContextPdbData.modules: the per-module parsed streams
    string_table,     \* ContextPdbData.string_table is Some (TRUE) or None (FALSE)
    overflow_checks,  \* whether the build panics on integer overflow
    panicked,         \* a panic unwound out of the library
    procedures,       \* Context.procedures
    procedure_cache,  \* Context.procedure_cache: start_rva -> ExtendedProcedureInfo
    module_cache,     \* Context.module_cache: module_index -> ExtendedModuleInfo
    iters,            \* the live ProcedureIter objects
    call,             \* the last API call: operation, argument, result, decode steps run
    failed            \* per procedure, the step its latest find_frames failed in

vars == <<modules, string_table, overflow_checks, panicked, procedures,
          procedure_cache, module_cache, iters, call, failed>>

-----------------------------------------------------------------------------
(* Bounds of the model *)

U32Bits == 4

MaxOffset == 1

MaxLen == 2

MaxProbe == 3

U32Wrap == 2 ^ U32Bits

-----------------------------------------------------------------------------
(* Option and Result *)

None == <<>>

Some(x) == <<x>>

IsSome(o) == o # <<>>

Unwrap(o) == o[1]

Ok(v) == [ok |-> TRUE, value |-> v]

Err(e) == [ok |-> FALSE, error |-> e]

-----------------------------------------------------------------------------
(* The address map: section index -> first RVA of the section.  Section 1  *)
(* lies at the bottom of the address space, section 2 at its top: the     *)
(* offsets 0..MaxOffset + 1 of section 2 are the last addresses there are.  *)

address_map == <<0, U32Wrap - 2 - MaxOffset>>

\* PdbInternalSectionOffset::to_rva: None for a section the map does not know.
to_rva(offset) ==
    IF offset.section \in DOMAIN address_map
    THEN Some(address_map[offset.section] + offset.offset)
    ELSE None

\* u32 `a + b` of a build without overflow checks.
WrappingAdd(a, b) == (a + b) % U32Wrap

\* u32 `a + b` panics in a build with overflow checks when the sum leaves u32.
AddOverflows(a, b) == a + b >= U32Wrap

-----------------------------------------------------------------------------
(* Sequence helpers standing for Vec::reverse, slices and the std binary    *)
(* search.                                                                  *)

Reverse(s) == [i \in 1..Len(s) |-> s[Len(s) + 1 - i]]

\* s[from..] of Rust, `from` 0-based.
SliceFrom(s, from) == SubSeq(s, from + 1, Len(s))

\* core::slice::binary_search_by over the comparator results `ords`
\* (ords[i+1] is f(&s[i])): Ok(mid) at the first probed Equal, else Err(left).
RECURSIVE BinarySearchLoop(_, _, _)
BinarySearchLoop(ords, left, right) ==
    IF left >= right THEN [found |-> FALSE, index |-> left]
    ELSE LET mid == left + ((right - left) \div 2) IN
         IF ords[mid + 1] = "Less" THEN BinarySearchLoop(ords, mid + 1, right)
         ELSE IF ords[mid + 1] = "Greater" THEN BinarySearchLoop(ords, left, mid)
         ELSE [found |-> TRUE, index |-> mid]

binary_search_by(ords) == BinarySearchLoop(ords, 0, Len(ords))

\* Ord::cmp on integers.
Cmp(a, b) == IF a < b THEN "Less" ELSE IF a > b THEN "Greater" ELSE "Equal"

-----------------------------------------------------------------------------
(* Context::new_from_parts: the procedure index.                            *)

\* The record pushed for a Procedure symbol whose offset translates to start_rva.
BasicProcedureInfo(module_index, symbol_index, sym, start_rva) ==
    [start_rva        |-> start_rva,
     end_rva          |-> WrappingAdd(start_rva, sym.len),
     module_index     |-> module_index,
     symbol_index     |-> symbol_index,
     end_symbol_index |-> sym.end,
     offset           |-> sym.offset,
     name             |-> sym.name,
     type_index       |-> sym.type_index]

\* Whether the loop body records the symbol: a Procedure record of non-zero
\* length whose offset the address map translates.
IsRecorded(sym) ==
    /\ sym.kind = "Procedure"
    /\ sym.len # 0
    /\ IsSome(to_rva(sym.offset))

\* The inner `while let` over one module's symbol stream, from symbol i on.
RECURSIVE ScanSymbols(_, _, _)
ScanSymbols(symbols, module_index, i) ==
    IF i > Len(symbols) THEN <<>>
    ELSE LET sym == symbols[i] IN
         (IF IsRecorded(sym)
          THEN <<BasicProcedureInfo(module_index, i, sym, Unwrap(to_rva(sym.offset)))>>
          ELSE <<>>)
         \o ScanSymbols(symbols, module_index, i + 1)

\* The outer `for` over the modules, from module m (1-based position) on.
RECURSIVE ScanModules(_, _)
ScanModules(mods, m) ==
    IF m > Len(mods) THEN <<>>
    ELSE ScanSymbols(mods[m].symbols, m - 1, 1) \o ScanModules(mods, m + 1)

\* insert x behind every element whose key is <= its own (a stable insertion).
RECURSIVE InsertByStartRva(_, _)
InsertByStartRva(sorted, x) ==
    IF sorted = <<>> THEN <<x>>
    ELSE IF Head(sorted).start_rva <= x.start_rva
         THEN <<Head(sorted)>> \o InsertByStartRva(Tail(sorted), x)
         ELSE <<x>> \o sorted

\* procedures.sort_by_key(|p| p.start_rva): a stable sort.
RECURSIVE SortByStartRva(_)
SortByStartRva(s) ==
    IF s = <<>> THEN <<>>
    ELSE InsertByStartRva(SortByStartRva(SubSeq(s, 1, Len(s) - 1)), s[Len(s)])

\* procedures.dedup_by_key(|p| p.start_rva): the first of each run stays.
RECURSIVE DedupByStartRva(_)
DedupByStartRva(s) ==
    IF Len(s) <= 1 THEN s
    ELSE LET rest == DedupByStartRva(Tail(s)) IN
         IF Head(rest).start_rva = Head(s).start_rva
         THEN <<Head(s)>> \o Tail(rest)
         ELSE <<Head(s)>> \o rest

\* SortAndDedup without the reverse: the first duplicate would win.
SortAndDedupNoReverse(raw) == DedupByStartRva(SortByStartRva(raw))

\* Lines 162-164: reverse, stable sort, de-duplicate.
SortAndDedup(raw) == DedupByStartRva(SortByStartRva(Reverse(raw)))

new_from_parts(mods) == SortAndDedup(ScanModules(mods, 1))

\* `start_rva + proc.len` leaves u32 for some recorded symbol: a build with
\* overflow checks panics there and no Context exists.
new_from_parts_overflows(mods) ==
    \E m \in 1..Len(mods) : \E i \in 1..Len(mods[m].symbols) :
        LET sym == mods[m].symbols[i] IN
        /\ IsRecorded(sym)
        /\ AddOverflows(Unwrap(to_rva(sym.offset)), sym.len)

procedure_count(procs) == Len(procs)

-----------------------------------------------------------------------------
(* Context::lookup_proc                                                     *)

\* The index the binary search settles on: None for Err(0).
last_procedure_starting_lte_address(procs, probe) ==
    LET search == binary_search_by([i \in 1..Len(procs) |-> Cmp(procs[i].start_rva, probe)]) IN
    IF search.found THEN Some(search.index)
    ELSE IF search.index = 0 THEN None
    ELSE Some(search.index - 1)

\* The assert! of line 303 fails.
lookup_proc_panics(procs, probe) ==
    LET at == last_procedure_starting_lte_address(procs, probe) IN
    /\ IsSome(at)
    /\ ~(procs[Unwrap(at) + 1].start_rva <= probe)

\* lookup_proc with the hole test off by one: a probe at end_rva is accepted.
lookup_proc_end_inclusive(procs, probe) ==
    LET at == last_procedure_starting_lte_address(procs, probe) IN
    IF ~IsSome(at) THEN None
    ELSE IF probe > procs[Unwrap(at) + 1].end_rva THEN None
    ELSE Some(procs[Unwrap(at) + 1])

lookup_proc(procs, probe) ==
    LET at == last_procedure_starting_lte_address(procs, probe) IN
    IF ~IsSome(at) THEN None
    ELSE IF probe >= procs[Unwrap(at) + 1].end_rva THEN None
    ELSE Some(procs[Unwrap(at) + 1])

-----------------------------------------------------------------------------
(* The type formatter (mod type_formatter): write_function and write_id.    *)
(* A name is formatted from the raw name and the type it is resolved with;  *)
(* type index 0 and id index 0 stand for records the formatter rejects.     *)

write_function(raw_name, type_index) ==
    IF type_index = 0 THEN Err("format")
    ELSE Ok(<<"fn", raw_name, type_index>>)

write_id(id_index) ==
    IF id_index = 0 THEN Err("format")
    ELSE Ok(<<"id", id_index>>)

-----------------------------------------------------------------------------
(* The procedure cache and the memoised procedure name.                     *)

\* get_entry_mut that inserts a fresh entry on every call.
get_entry_mut_fresh(cache, procedure_start_rva) ==
    [rva \in DOMAIN cache \cup {procedure_start_rva} |->
        IF rva = procedure_start_rva
        THEN [name |-> None, lines |-> None, inline_ranges |-> None]
        ELSE cache[rva]]

\* ProcedureCache::get_entry_mut: entry(rva).or_insert_with(all slots None).
get_entry_mut(cache, procedure_start_rva) ==
    IF procedure_start_rva \in DOMAIN cache THEN cache
    ELSE cache @@ (procedure_start_rva :>
                     [name |-> None, lines |-> None, inline_ranges |-> None])

\* Context::compute_procedure_name: `.ok()?` turns a formatter error into None.
compute_procedure_name(proc) ==
    LET res == write_function(proc.name, proc.type_index) IN
    IF res.ok THEN Some(res.value) ELSE None

\* Context::get_procedure_name: the cache after the call, the name handed
\* out, and the decode steps that ran.
get_procedure_name(cache, proc) ==
    LET with_entry == get_entry_mut(cache, proc.start_rva)
        entry == with_entry[proc.start_rva]
    IN  IF IsSome(entry.name)
        THEN [cache |-> with_entry, value |-> Unwrap(entry.name), computed |-> {}]
        ELSE LET name == compute_procedure_name(proc) IN
             [cache    |-> [with_entry EXCEPT ![proc.start_rva].name = Some(name)],
              value    |-> name,
              computed |-> {"name"}]

-----------------------------------------------------------------------------
(* The module cache: Context::get_extended_module_info.                     *)

\* Context::compute_extended_module_info: line_program()? then inlinees()?.
compute_extended_module_info(mods, module_index) ==
    LET module_info == mods[module_index + 1] IN
    IF module_info.line_program_err THEN Err("line_program")
    ELSE IF module_info.inlinees_err THEN Err("inlinees")
    ELSE Ok([inlinees |-> module_info.inlinees, line_program |-> module_info.lines])

\* Entry::Occupied hands out the stored value; Entry::Vacant computes, and
\* inserts only when the computation succeeded.
get_extended_module_info(cache, mods, module_index) ==
    IF module_index \in DOMAIN cache
    THEN [cache |-> cache, result |-> Ok(cache[module_index]), computed |-> {}]
    ELSE LET m == compute_extended_module_info(mods, module_index) IN
         [cache    |-> IF m.ok THEN cache @@ (module_index :> m.value) ELSE cache,
          result   |-> m,
          computed |-> {"module"}]

-----------------------------------------------------------------------------
(* The per-procedure line list.                                             *)

\* LineProgram::lines_at_offset: the line block recorded for the offset.
lines_at_offset(line_program, offset) ==
    IF \E b \in 1..Len(line_program) : line_program[b].offset = offset
    THEN line_program[CHOOSE b \in 1..Len(line_program) : line_program[b].offset = offset]
    ELSE [offset |-> offset, records |-> <<>>, err |-> FALSE]

\* Context::compute_procedure_lines: every record of the block with its
\* offset translated; an iterator error fails the whole step.
compute_procedure_lines(proc, line_program) ==
    LET block == lines_at_offset(line_program, proc.offset) IN
    IF block.err THEN Err("lines")
    ELSE Ok([i \in 1..Len(block.records) |->
               [start_rva  |-> Unwrap(to_rva(proc.offset)) + block.records[i].code_offset,
                file_index |-> block.records[i].file_index,
                line_start |-> block.records[i].line_start]])

\* get_procedure_lines that decodes on every call and never reads the slot.
get_procedure_lines_uncached(cache, proc, line_program) ==
    LET with_entry == get_entry_mut(cache, proc.start_rva)
        lines == compute_procedure_lines(proc, line_program)
    IN  [cache    |-> IF lines.ok
                      THEN [with_entry EXCEPT ![proc.start_rva].lines = Some(lines.value)]
                      ELSE with_entry,
         result   |-> lines,
         computed |-> {"lines"}]

\* get_procedure_lines that fills the slot with an empty list when the
\* decoding failed.
get_procedure_lines_poisoned(cache, proc, line_program) ==
    LET with_entry == get_entry_mut(cache, proc.start_rva)
        entry == with_entry[proc.start_rva]
    IN  IF IsSome(entry.lines)
        THEN [cache |-> with_entry, result |-> Ok(Unwrap(entry.lines)), computed |-> {}]
        ELSE LET lines == compute_procedure_lines(proc, line_program) IN
             [cache    |-> [with_entry EXCEPT ![proc.start_rva].lines =
                               Some(IF lines.ok THEN lines.value ELSE <<>>)],
              result   |-> lines,
              computed |-> {"lines"}]

\* Context::get_procedure_lines
get_procedure_lines(cache, proc, line_program) ==
    LET with_entry == get_entry_mut(cache, proc.start_rva)
        entry == with_entry[proc.start_rva]
    IN  IF IsSome(entry.lines)
        THEN [cache |-> with_entry, result |-> Ok(Unwrap(entry.lines)), computed |-> {}]
        ELSE LET lines == compute_procedure_lines(proc, line_program) IN
             [cache    |-> IF lines.ok
                           THEN [with_entry EXCEPT ![proc.start_rva].lines = Some(lines.value)]
                           ELSE with_entry,
              result   |-> lines,
              computed |-> {"lines"}]

-----------------------------------------------------------------------------
(* RangeSet<u32>: a set of RVAs.                                            *)

\* RangeSet::from(start..end): empty when end <= start.
RangeSetFrom(start, end) == start..(end - 1)

\* RangeSet::iter: the maximal runs of the set as <<start, end>>, ascending.
RECURSIVE RangeSetIter(_)
RangeSetIter(set) ==
    IF set = {} THEN <<>>
    ELSE LET start == CHOOSE x \in set : \A y \in set : x <= y
             end   == CHOOSE e \in (start + 1)..(start + Cardinality(set)) :
                          /\ e \notin set
                          /\ \A y \in start..(e - 1) : y \in set
         IN  <<  <<start, end>>  >> \o RangeSetIter(set \ (start..(end - 1)))

-----------------------------------------------------------------------------
(* The inline-range table: Context::compute_procedure_inline_ranges and     *)
(* Context::process_inlinee_symbols.  The SymbolIter is the index of the    *)
(* symbol it reads next; a symbol's index is its position in the stream.    *)

InlineRange(start_rva, end_rva, call_depth, inlinee, file_index, line_start) ==
    [start_rva |-> start_rva, end_rva |-> end_rva, call_depth |-> call_depth,
     inlinee |-> inlinee, file_index |-> file_index, line_start |-> line_start]

\* SymbolIter::skip_to: seek and read one symbol; a position that is not a
\* symbol boundary of the stream cannot be read.
skip_to(symbols, index) ==
    IF index \in 1..(Len(symbols) + 1) THEN Ok(index + 1) ELSE Err("symbols")

\* Lines 483-507: the ranges of the site's own annotations.  Annotations
\* without a length or of length 0 are skipped.  `state` carries the table
\* `lines`, the RangeSet `ranges`, the fallback `file_index`, and whether an
\* addition left u32.
RECURSIVE OwnAnnotations(_, _, _, _, _)
OwnAnnotations(annotations, proc_start_rva, site, call_depth, state) ==
    IF annotations = <<>> THEN state
    ELSE LET line_info == Head(annotations)
             start_rva == proc_start_rva + line_info.code_offset
             end_rva   == WrappingAdd(start_rva, line_info.length)
         IN  IF line_info.length = 0
             THEN OwnAnnotations(Tail(annotations), proc_start_rva, site, call_depth, state)
             ELSE OwnAnnotations(Tail(annotations), proc_start_rva, site, call_depth,
                    [lines      |-> Append(state.lines,
                                      InlineRange(start_rva, end_rva, call_depth, site.inlinee,
                                                  Some(line_info.file_index),
                                                  Some(line_info.line_start))),
                     ranges     |-> state.ranges \cup RangeSetFrom(start_rva, end_rva),
                     file_index |-> IF IsSome(state.file_index) THEN state.file_index
                                    ELSE Some(line_info.file_index),
                     overflow   |-> state.overflow
                                    \/ AddOverflows(start_rva, line_info.length)])

\* process_inlinee_symbols without the workaround of lines 533-553.
MissingRangesNotFilled(ranges, callee_ranges, site, call_depth, file_index) == <<>>

\* The workaround without the difference of line 535: one fabricated range
\* per run of callee_ranges.
MissingRangesNotSubtracted(ranges, callee_ranges, site, call_depth, file_index) ==
    LET missing == RangeSetIter(callee_ranges) IN
    [i \in 1..Len(missing) |->
        InlineRange(missing[i][1], missing[i][2], call_depth, site.inlinee, file_index, None)]

\* Lines 533-553: one fabricated range per run of callee_ranges - ranges.
MissingRanges(ranges, callee_ranges, site, call_depth, file_index) ==
    LET missing == RangeSetIter(callee_ranges \ ranges) IN
    [i \in 1..Len(missing) |->
        InlineRange(missing[i][1], missing[i][2], call_depth, site.inlinee, file_index, None)]

RECURSIVE process_inlinee_symbols(_, _, _, _, _, _)
RECURSIVE InlineeSymbolLoop(_, _, _, _, _, _)

\* Lines 509-531: the symbols up to site.end; `walk` carries the iterator,
\* the table and callee_ranges.
InlineeSymbolLoop(symbols, inlinees, proc_start_rva, site, call_depth, walk) ==
    IF ~walk.ok \/ walk.iter > Len(symbols) \/ walk.iter >= site.end
    THEN (IF walk.ok /\ walk.iter <= Len(symbols)
          THEN [walk EXCEPT !.iter = walk.iter + 1]
          ELSE walk)
    ELSE LET symbol == symbols[walk.iter]
             after  == walk.iter + 1
         IN  IF symbol.kind = "Procedure"
             THEN LET skipped == skip_to(symbols, symbol.end) IN
                  IF skipped.ok
                  THEN InlineeSymbolLoop(symbols, inlinees, proc_start_rva, site, call_depth,
                                         [walk EXCEPT !.iter = skipped.value])
                  ELSE [walk EXCEPT !.ok = FALSE]
             ELSE IF symbol.kind = "InlineSite"
             THEN LET Accumulate(callee) ==
                          [callee EXCEPT !.callee_ranges =
                                             walk.callee_ranges \cup callee.callee_ranges]
                  IN  InlineeSymbolLoop(symbols, inlinees, proc_start_rva, site, call_depth,
                          Accumulate(process_inlinee_symbols(symbols, inlinees,
                                         proc_start_rva, symbol, call_depth + 1,
                                         [walk EXCEPT !.iter = after, !.callee_ranges = {}])))
             ELSE InlineeSymbolLoop(symbols, inlinees, proc_start_rva, site, call_depth,
                                    [walk EXCEPT !.iter = after])

\* The walk after the site: its table, and in callee_ranges the RangeSet the
\* call returns (ranges | missing_ranges).
process_inlinee_symbols(symbols, inlinees, proc_start_rva, site, call_depth, walk) ==
    LET none == [lines |-> walk.lines, ranges |-> {}, file_index |-> None,
                 overflow |-> walk.overflow]
        Workaround(own, callees) ==
            IF ~callees.ok THEN callees
            ELSE [callees EXCEPT
                    !.lines = callees.lines
                              \o MissingRanges(own.ranges, callees.callee_ranges, site,
                                               call_depth, own.file_index),
                    !.callee_ranges = own.ranges \cup callees.callee_ranges]
        Callees(own) ==
            Workaround(own,
                InlineeSymbolLoop(symbols, inlinees, proc_start_rva, site, call_depth,
                    [walk EXCEPT !.lines = own.lines, !.overflow = own.overflow,
                                 !.callee_ranges = {}]))
    IN  Callees(IF site.inlinee \in inlinees
                THEN OwnAnnotations(site.annotations, proc_start_rva, site, call_depth, none)
                ELSE none)

\* Lines 429-450: the symbols of the procedure up to its end_symbol_index.
RECURSIVE ProcedureSymbolLoop(_, _, _, _, _)
ProcedureSymbolLoop(symbols, inlinees, proc_start_rva, end_symbol_index, walk) ==
    IF ~walk.ok \/ walk.iter > Len(symbols) \/ walk.iter >= end_symbol_index
    THEN walk
    ELSE LET symbol == symbols[walk.iter]
             after  == walk.iter + 1
         IN  IF symbol.kind = "Procedure"
             THEN LET skipped == skip_to(symbols, symbol.end) IN
                  IF skipped.ok
                  THEN ProcedureSymbolLoop(symbols, inlinees, proc_start_rva, end_symbol_index,
                                           [walk EXCEPT !.iter = skipped.value])
                  ELSE [walk EXCEPT !.ok = FALSE]
             ELSE IF symbol.kind = "InlineSite"
             THEN ProcedureSymbolLoop(symbols, inlinees, proc_start_rva, end_symbol_index,
                      process_inlinee_symbols(symbols, inlinees, proc_start_rva, symbol, 0,
                                              [walk EXCEPT !.iter = after]))
             ELSE ProcedureSymbolLoop(symbols, inlinees, proc_start_rva, end_symbol_index,
                                      [walk EXCEPT !.iter = after])

\* The comparator of lines 452-464.
InlineRangeBefore(r1, r2) ==
    \/ r1.call_depth < r2.call_depth
    \/ r1.call_depth = r2.call_depth /\ r1.start_rva < r2.start_rva

\* insert x behind every element that does not sort after it.
RECURSIVE InsertInlineRange(_, _)
InsertInlineRange(sorted, x) ==
    IF sorted = <<>> THEN <<x>>
    ELSE IF InlineRangeBefore(x, Head(sorted))
         THEN <<x>> \o sorted
         ELSE <<Head(sorted)>> \o InsertInlineRange(Tail(sorted), x)

\* The table left in the order the walk pushed it.
SortInlineRangesUnsorted(s) == s

\* lines.sort_by(..): a stable sort by (call_depth, start_rva).
RECURSIVE SortInlineRanges(_)
SortInlineRanges(s) ==
    IF s = <<>> THEN <<>>
    ELSE InsertInlineRange(SortInlineRanges(SubSeq(s, 1, Len(s) - 1)), s[Len(s)])

\* Context::compute_procedure_inline_ranges: Ok(table), Err("symbols"), or
\* Err("panic") where an addition left u32 in a build with overflow checks.
compute_procedure_inline_ranges(symbols, proc, inlinees, checks) ==
    LET Sorted(walk) ==
            IF walk.overflow /\ checks THEN Err("panic")
            ELSE IF ~walk.ok THEN Err("symbols")
            ELSE Ok(SortInlineRanges(walk.lines))
    IN  Sorted(ProcedureSymbolLoop(symbols, inlinees, proc.start_rva, proc.end_symbol_index,
                   [ok |-> TRUE, iter |-> proc.symbol_index + 1, lines |-> <<>>,
                    callee_ranges |-> {}, overflow |-> FALSE]))

\* Context::get_procedure_inline_ranges
get_procedure_inline_ranges(cache, symbols, proc, inlinees, checks) ==
    LET Computed(with_entry, inline_ranges) ==
            [cache    |-> IF inline_ranges.ok
                          THEN [with_entry EXCEPT
                                   ![proc.start_rva].inline_ranges = Some(inline_ranges.value)]
                          ELSE with_entry,
             result   |-> inline_ranges,
             computed |-> {"inline_ranges"}]
        Entry(with_entry) ==
            IF IsSome(with_entry[proc.start_rva].inline_ranges)
            THEN [cache |-> with_entry,
                  result |-> Ok(Unwrap(with_entry[proc.start_rva].inline_ranges)),
                  computed |-> {}]
            ELSE Computed(with_entry,
                          compute_procedure_inline_ranges(symbols, proc, inlinees, checks))
    IN  Entry(get_entry_mut(cache, proc.start_rva))

-----------------------------------------------------------------------------
(* Context::find_frames                                                     *)

\* Context::resolve_filename: None without a string table or for a file the
\* line program does not know (file index 0).
resolve_filename(has_string_table, file_index) ==
    IF has_string_table /\ file_index # 0 THEN Some(<<"file", file_index>>) ELSE None

Frame(function, file, line) == [function |-> function, file |-> file, line |-> line]

\* Lines 214-228: file and line of the outer frame.
OuterFileAndLine(has_string_table, lines, probe) ==
    LET found == binary_search_by([i \in 1..Len(lines) |-> Cmp(lines[i].start_rva, probe)])
        search == IF found.found THEN Some(found.index)
                  ELSE IF found.index = 0 THEN None
                  ELSE Some(found.index - 1)
    IN  IF IsSome(search)
        THEN <<resolve_filename(has_string_table, lines[Unwrap(search) + 1].file_index),
               Some(lines[Unwrap(search) + 1].line_start)>>
        ELSE <<None, None>>

\* The comparator of lines 249-261.
InlineRangeOrdering(range, current_depth, probe) ==
    IF range.call_depth > current_depth THEN "Greater"
    ELSE IF range.call_depth < current_depth THEN "Less"
    ELSE IF range.start_rva > probe THEN "Greater"
    ELSE IF range.end_rva <= probe THEN "Less"
    ELSE "Equal"

\* Lines 266-279: the frame of a matched inline range.
InlineFrame(has_string_table, inline_range) ==
    LET res == write_id(inline_range.inlinee) IN
    Frame(IF res.ok THEN Some(res.value) ELSE None,
          IF IsSome(inline_range.file_index)
          THEN resolve_filename(has_string_table, Unwrap(inline_range.file_index))
          ELSE None,
          inline_range.line_start)

\* The loop of lines 242-282: frames ordered outside to inside.
RECURSIVE InlineWalk(_, _, _, _)
InlineWalk(has_string_table, inline_ranges, probe, frames) ==
    LET current_depth == Len(frames) - 1
        search == binary_search_by([i \in 1..Len(inline_ranges) |->
                      InlineRangeOrdering(inline_ranges[i], current_depth, probe)])
    IN  IF ~search.found THEN frames
        ELSE InlineWalk(has_string_table, SliceFrom(inline_ranges, search.index + 1), probe,
                        Append(frames, InlineFrame(has_string_table,
                                                   inline_ranges[search.index + 1])))

\* The frames as collected, outside to inside: without line 285.
OrderFramesUnreversed(frames) == frames

\* Line 285: "Now order from inside to outside."
OrderFrames(frames) == Reverse(frames)

\* The caches after the call, its result and the decode steps that ran.
find_frames(ctx, probe) ==
    LET \* Lines 239-291: the inline frames on top of the outer frame.
        Frames(p, module, named, lines, outer, ranges) ==
            [procedure_cache |-> ranges.cache,
             module_cache    |-> module.cache,
             result          |->
                 IF ~ranges.result.ok THEN ranges.result
                 ELSE Ok(Some(
                         [procedure_start_rva |-> p.start_rva,
                          frames |-> OrderFrames(InlineWalk(ctx.string_table,
                                        ranges.result.value, probe,
                                        <<Frame(named.value, outer[1], outer[2])>>))])),
             computed        |-> module.computed \cup named.computed \cup lines.computed
                                 \cup ranges.computed]
        \* Lines 213-239: the outer frame, then the inline ranges.
        Lines(p, module, named, lines) ==
            IF ~lines.result.ok
            THEN [procedure_cache |-> lines.cache, module_cache |-> module.cache,
                  result |-> lines.result,
                  computed |-> module.computed \cup named.computed \cup lines.computed]
            ELSE Frames(p, module, named, lines,
                        OuterFileAndLine(ctx.string_table, lines.result.value, probe),
                        get_procedure_inline_ranges(lines.cache,
                            ctx.modules[p.module_index + 1].symbols, p,
                            module.result.value.inlinees, ctx.overflow_checks))
        \* Lines 211-212: the name, then the lines.
        Named(p, module, named) ==
            Lines(p, module, named,
                  get_procedure_lines(named.cache, p, module.result.value.line_program))
        \* Lines 203-209: the module's line program and inlinees.
        Module(p, module) ==
            IF ~module.result.ok
            THEN [procedure_cache |-> ctx.procedure_cache, module_cache |-> module.cache,
                  result |-> module.result, computed |-> module.computed]
            ELSE Named(p, module, get_procedure_name(ctx.procedure_cache, p))
        \* Line 202: lookup_proc(probe)?
        Proc(proc) ==
            IF ~IsSome(proc)
            THEN [procedure_cache |-> ctx.procedure_cache, module_cache |-> ctx.module_cache,
                  result |-> Ok(None), computed |-> {}]
            ELSE Module(Unwrap(proc),
                        get_extended_module_info(ctx.module_cache, ctx.modules,
                                                 Unwrap(proc).module_index))
    IN  Proc(lookup_proc(ctx.procedures, probe))

-----------------------------------------------------------------------------
(* The record of an API call.                                               *)

NoCall == [op |-> "none", arg |-> 0, result |-> Ok(None), computed |-> {},
           repeats |-> FALSE, retry |-> "none"]

\* `repeats`: the call before was the same operation on the same argument
\* and returned Ok(Some(..)).  `retry`: the step in which the latest
\* find_frames for the same procedure failed, for a find_frames.
Called(op, arg, result, computed, retry) ==
    [op |-> op, arg |-> arg, result |-> result, computed |-> computed,
     repeats |-> /\ call.op = op
                 /\ call.arg = arg
                 /\ call.result.ok
                 /\ IsSome(call.result.value),
     retry |-> retry]

\* The decode step an error comes from; its cache slot bears the same name.
FailedStep(result) ==
    IF result.ok THEN "none"
    ELSE IF result.error \in {"line_program", "inlinees"} THEN "module"
    ELSE IF result.error = "lines" THEN "lines"
    ELSE IF result.error = "symbols" THEN "inline_ranges"
    ELSE "none"

-----------------------------------------------------------------------------
(* Context::find_function                                                   *)

find_function(cache, procs, probe) ==
    LET proc == lookup_proc(procs, probe) IN
    IF ~IsSome(proc)
    THEN [cache |-> cache, result |-> Ok(None), computed |-> {}]
    ELSE LET named == get_procedure_name(cache, Unwrap(proc)) IN
         [cache    |-> named.cache,
          result   |-> Ok(Some([procedure_start_rva |-> Unwrap(proc).start_rva,
                                function            |-> named.value])),
          computed |-> named.computed]

FindFunction(probe) ==
    /\ ~panicked
    /\ LET r == find_function(procedure_cache, procedures, probe) IN
       /\ procedure_cache' = r.cache
       /\ call' = Called("find_function", probe, r.result, r.computed, "none")
    /\ panicked' = lookup_proc_panics(procedures, probe)
    /\ UNCHANGED <<modules, string_table, overflow_checks, procedures,
                   module_cache, iters, failed>>

\* The Context as the lookups read it.
Ctx ==
    [modules |-> modules, string_table |-> string_table,
     overflow_checks |-> overflow_checks, procedures |-> procedures,
     procedure_cache |-> procedure_cache, module_cache |-> module_cache]

FindFrames(probe) ==
    /\ ~panicked
    /\ LET Returned(r, proc) ==
               /\ procedure_cache' = r.procedure_cache
               /\ module_cache' = r.module_cache
               /\ call' = Called("find_frames", probe, r.result, r.computed,
                                  IF IsSome(proc) THEN failed[Unwrap(proc).start_rva]
                                  ELSE "none")
               /\ failed' = IF IsSome(proc)
                             THEN [failed EXCEPT ![Unwrap(proc).start_rva]
                                                     = FailedStep(r.result)]
                             ELSE failed
               /\ panicked' = (\/ lookup_proc_panics(procedures, probe)
                               \/ ~r.result.ok /\ r.result.error = "panic")
       IN  Returned(find_frames(Ctx, probe), lookup_proc(procedures, probe))
    /\ UNCHANGED <<modules, string_table, overflow_checks, procedures, iters>>

-----------------------------------------------------------------------------
(* Context::iter_procedures and ProcedureIter::next.  An iterator records   *)
(* what it has yielded and whether it has returned None.                    *)

\* An iterator that starts behind the first entry.
iter_procedures_from_one == [cur_index |-> 1, yielded |-> <<>>, done |-> FALSE]

iter_procedures == [cur_index |-> 0, yielded |-> <<>>, done |-> FALSE]

\* ProcedureIter::next: the iterator and the cache after the call, and the item.
ProcedureIterNext(iter, cache, procs) ==
    IF iter.cur_index >= Len(procs)
    THEN [iter |-> [iter EXCEPT !.done = TRUE], cache |-> cache, item |-> None,
          computed |-> {}]
    ELSE LET proc == procs[iter.cur_index + 1]
             named == get_procedure_name(cache, proc)
             item == [procedure_start_rva |-> proc.start_rva, function |-> named.value]
         IN  [iter     |-> [iter EXCEPT !.cur_index = iter.cur_index + 1,
                                        !.yielded = Append(iter.yielded, item)],
              cache    |-> named.cache,
              item     |-> Some(item),
              computed |-> named.computed]

IterProcedures(i) ==
    /\ ~panicked
    /\ iters' = IF i \in DOMAIN iters THEN [iters EXCEPT ![i] = iter_procedures]
                                       ELSE iters @@ (i :> iter_procedures)
    /\ call' = Called("iter_procedures", i, Ok(None), {}, "none")
    /\ UNCHANGED <<modules, string_table, overflow_checks, panicked, procedures,
                   procedure_cache, module_cache, failed>>

IterNext(i) ==
    /\ ~panicked
    /\ i \in DOMAIN iters
    /\ LET r == ProcedureIterNext(iters[i], procedure_cache, procedures) IN
       /\ iters' = [iters EXCEPT ![i] = r.iter]
       /\ procedure_cache' = r.cache
       /\ call' = Called("next", i, Ok(r.item), r.computed, "none")
    /\ UNCHANGED <<modules, string_table, overflow_checks, panicked, procedures,
                   module_cache, failed>>

-----------------------------------------------------------------------------
(* The inputs.                                                              *)

\* The probes tried: the bottom and the top of the address space.
Probes == (0..MaxProbe) \cup ((U32Wrap - 1 - MaxProbe)..(U32Wrap - 1))

\* The section offsets a symbol may carry: section 0 is unknown to the map.
SectionOffsets ==
    {[section |-> 0, offset |-> 0]}
    \cup [section : DOMAIN address_map, offset : 0..MaxOffset]

ProcedureSymbol(offset, len, end, name, type_index) ==
    [kind |-> "Procedure", offset |-> offset, len |-> len, end |-> end,
     name |-> name, type_index |-> type_index]

EndSymbol == [kind |-> "End"]

InlineSiteSymbol(inlinee, end, annotations) ==
    [kind |-> "InlineSite", inlinee |-> inlinee, end |-> end, annotations |-> annotations]

\* A module holding only what the index needs: no line program or inlinee
\* failure, no line records.
PlainModule(symbols) ==
    [symbols |-> symbols, line_program_err |-> FALSE, inlinees_err |-> FALSE,
     inlinees |-> {}, lines |-> <<>>]

\* Three procedure symbols, each closed by its End: two in module 0 with
\* any offsets and lengths, and one in module 1 that opens a section.
IndexModules ==
    { << PlainModule(<< ProcedureSymbol(o[1], l[1], 2, 1, 1), EndSymbol,
                        ProcedureSymbol(o[2], l[2], 4, 2, 2), EndSymbol >>),
         PlainModule(<< ProcedureSymbol([section |-> sec, offset |-> 0], l[3], 2, 3, 1),
                        EndSymbol >>) >> :
      o \in [1..2 -> SectionOffsets], l \in [1..3 -> 0..MaxLen],
      sec \in DOMAIN address_map }

InitContext(mods) ==
    /\ modules = mods
    /\ panicked = (overflow_checks /\ new_from_parts_overflows(mods))
    /\ procedures = new_from_parts(mods)
    /\ procedure_cache = <<>>
    /\ module_cache = <<>>
    /\ iters = <<>>
    /\ call = NoCall
    /\ failed = [rva \in {new_from_parts(mods)[k].start_rva :
                               k \in 1..Len(new_from_parts(mods))} |-> "none"]

InitIndex ==
    /\ string_table = TRUE
    /\ overflow_checks \in BOOLEAN
    /\ \E mods \in IndexModules : InitContext(mods)

NextIndex == \E probe \in Probes : FindFunction(probe)

SpecIndex == InitIndex /\ [][NextIndex]_vars

\* The indexes iterated: those of three procedures of length 1.
IterModules ==
    {mods \in IndexModules :
        \A m \in 1..Len(mods) : \A i \in 1..Len(mods[m].symbols) :
            mods[m].symbols[i].kind = "Procedure" => mods[m].symbols[i].len = 1}

InitIter ==
    /\ string_table = TRUE
    /\ overflow_checks \in BOOLEAN
    /\ \E mods \in IterModules : InitContext(mods)

Iterators == 1..2

NextIter ==
    \/ \E i \in Iterators : IterProcedures(i)
    \/ \E i \in Iterators : IterNext(i)

SpecIter == InitIter /\ [][NextIter]_vars

-----------------------------------------------------------------------------
(* The inputs of the cache claims: two modules.  Module 0 holds procedure 1 *)
(* at [0, 2) with inline site A (no annotations) around inline site B, and  *)
(* a nested procedure record; module 1 holds procedures 3 and 4 folded onto *)
(* the same address.  `errors` names the decode steps that fail on module 0 *)
(* and procedure 1; `type_index` is the type of procedure 4.                *)

LineBlock(offset, code_offset, err) ==
    [offset |-> offset, err |-> err,
     records |-> << [code_offset |-> code_offset, file_index |-> 3, line_start |-> 7] >>]

CacheModules(errors, type_index) ==
    << [symbols |->
          << ProcedureSymbol([section |-> 1, offset |-> 0], 2, 8, 1, 1),
             InlineSiteSymbol(1, 5, <<>>),
             InlineSiteSymbol(2, 4, << [code_offset |-> 0, length |-> 1,
                                        file_index |-> 2, line_start |-> 20] >>),
             EndSymbol,
             EndSymbol,
             ProcedureSymbol([section |-> 0, offset |-> 0], 1,
                             IF "symbols" \in errors THEN 0 ELSE 7, 9, 1),
             EndSymbol,
             EndSymbol >>,
        line_program_err |-> "line_program" \in errors,
        inlinees_err     |-> "inlinees" \in errors,
        inlinees         |-> {1, 2},
        lines            |-> << LineBlock([section |-> 1, offset |-> 0], 1,
                                          "lines" \in errors) >>],
       [symbols |->
          << ProcedureSymbol([section |-> 1, offset |-> 2], 1, 2, 3, 1), EndSymbol,
             ProcedureSymbol([section |-> 1, offset |-> 2], 2, 4, 4, type_index),
             EndSymbol >>,
        line_program_err |-> FALSE,
        inlinees_err     |-> FALSE,
        inlinees         |-> {},
        lines            |-> << LineBlock([section |-> 1, offset |-> 2], 0, FALSE) >>] >>

ErrorSets ==
    {{}, {"line_program"}, {"inlinees"}, {"lines"}, {"symbols"}, {"lines", "symbols"}}

Init ==
    /\ string_table \in BOOLEAN
    /\ overflow_checks = TRUE
    /\ \E errors \in ErrorSets, type_index \in 0..1 :
          InitContext(CacheModules(errors, type_index))

\* The probes tried on them: the procedures lie at the bottom of the address
\* space, [0, 2) and [2, 4); the last probe lies past them.
CacheProbes == 0..(MaxProbe + 1)

Next ==
    \/ \E probe \in CacheProbes : FindFunction(probe)
    \/ \E probe \in CacheProbes : FindFrames(probe)
    \/ IterProcedures(1)
    \/ IterNext(1)

Spec == Init /\ [][Next]_vars

-----------------------------------------------------------------------------
(* The procedure index and the lookup (C1, C3, C9).                         *)

\* The index entries starting at or below p.
EntriesAtOrBelow(p) == {i \in 1..Len(procedures) : procedures[i].start_rva <= p}

\* One with the greatest start_rva among them.
GreatestEntryAtOrBelow(p) ==
    CHOOSE i \in EntriesAtOrBelow(p) :
        \A j \in EntriesAtOrBelow(p) : procedures[j].start_rva <= procedures[i].start_rva

\* C1: find_function(p) returns Some exactly when the index entry e with the
\* greatest start_rva <= p exists and p < e.end_rva, and then the returned
\* procedure_start_rva is e.start_rva; so p = e.start_rva yields the
\* procedure, p = e.end_rva yields none, a probe below the first entry none.
C1_LookupProc ==
    call.op = "find_function" =>
        LET p == call.arg
            hit == /\ EntriesAtOrBelow(p) # {}
                   /\ p < procedures[GreatestEntryAtOrBelow(p)].end_rva
        IN  /\ call.result.ok
            /\ IsSome(call.result.value) <=> hit
            /\ hit => /\ Unwrap(call.result.value).procedure_start_rva
                           = procedures[GreatestEntryAtOrBelow(p)].start_rva
                      /\ Unwrap(call.result.value).procedure_start_rva <= p

\* A probe strictly inside the second or a later entry of the index was
\* answered with its procedure.
C1_Witness ==
    /\ call.op = "find_function"
    /\ IsSome(call.result.value)
    /\ \E i \in 2..Len(procedures) :
          /\ procedures[i].start_rva < call.arg
          /\ Unwrap(call.result.value).procedure_start_rva = procedures[i].start_rva

\* The recorded procedure symbols, as <<module position, symbol index>>.
RecordedSymbols ==
    {pos \in UNION {{<<m, i>> : i \in 1..Len(modules[m].symbols)} : m \in 1..Len(modules)} :
        IsRecorded(modules[pos[1]].symbols[pos[2]])}

SymbolAt(pos) == modules[pos[1]].symbols[pos[2]]

StartRvaAt(pos) == Unwrap(to_rva(SymbolAt(pos).offset))

\* pos comes no later than other in the traversal: modules in table order,
\* symbols in stream order.
NoLaterThan(pos, other) ==
    \/ pos[1] < other[1]
    \/ pos[1] = other[1] /\ pos[2] <= other[2]

\* The last recorded symbol that starts at rva.
LastSymbolAt(rva) ==
    CHOOSE pos \in RecordedSymbols :
        /\ StartRvaAt(pos) = rva
        /\ \A other \in RecordedSymbols : StartRvaAt(other) = rva => NoLaterThan(other, pos)

\* C3: after construction the index holds exactly one entry for every
\* start_rva a recorded symbol carries, that entry's end_rva, module index,
\* name and type index are those of the last such symbol in traversal
\* order, and there is no entry for any other start_rva.
C3_LastDuplicateWins ==
    ~panicked =>
        /\ \A pos \in RecordedSymbols :
              Cardinality({k \in 1..Len(procedures) :
                              procedures[k].start_rva = StartRvaAt(pos)}) = 1
        /\ \A k \in 1..Len(procedures) :
              /\ \E pos \in RecordedSymbols : StartRvaAt(pos) = procedures[k].start_rva
              /\ LET last == LastSymbolAt(procedures[k].start_rva) IN
                 /\ procedures[k].end_rva
                        = (procedures[k].start_rva + SymbolAt(last).len) % U32Wrap
                 /\ procedures[k].module_index = last[1] - 1
                 /\ procedures[k].name = SymbolAt(last).name
                 /\ procedures[k].type_index = SymbolAt(last).type_index

\* Three recorded symbols share one start_rva across both modules, with
\* different lengths, and the index is built.
C3_Witness ==
    /\ ~panicked
    /\ Cardinality(RecordedSymbols) = 3
    /\ Len(procedures) = 1
    /\ \E a, b \in RecordedSymbols : SymbolAt(a).len # SymbolAt(b).len

\* C9: every entry of the procedure index satisfies end_rva > start_rva.
C9_EndAfterStart ==
    ~panicked => \A k \in 1..Len(procedures) :
                    procedures[k].end_rva > procedures[k].start_rva

-----------------------------------------------------------------------------
(* The inputs of the inline walk: one procedure with two inline sites,      *)
(* A (inlinee 1, file 1) and B (inlinee 2, file 2), B nested in A or        *)
(* following it.                                                            *)

\* The annotation streams of a site: up to `most` line records of any
\* length (0 stands for a record without a length) at code offsets that do
\* not decrease, in the site's file.
AnnotationStreams(file_index, first_line, most) ==
    LET Record(k) == [code_offset : 0..MaxOffset, length : 0..MaxLen,
                      file_index : {file_index}, line_start : {first_line + k}]
    IN  {<<>>}
        \cup {<<a>> : a \in Record(0)}
        \cup (IF most < 2 THEN {}
              ELSE {s \in {<<a, b>> : a \in Record(0), b \in Record(1)} :
                        /\ s[2].code_offset >= s[1].code_offset
                        /\ s[1].length > 0
                        /\ s[2].length > 0})

\* The procedure's own line block: one record one byte into the body.
OuterLines(offset) ==
    << [offset |-> offset, err |-> FALSE,
        records |-> << [code_offset |-> 1, file_index |-> 3, line_start |-> 7] >>] >>

\* The symbol streams: B inside A, or B after A.
InlineSymbols(offset, len, a, b) ==
    { << ProcedureSymbol(offset, len, 6, 1, 1),
         InlineSiteSymbol(1, 5, a), InlineSiteSymbol(2, 4, b), EndSymbol, EndSymbol,
         EndSymbol >>,
      << ProcedureSymbol(offset, len, 6, 1, 1),
         InlineSiteSymbol(1, 3, a), EndSymbol, InlineSiteSymbol(2, 5, b), EndSymbol,
         EndSymbol >> }

\* The procedure at the bottom of the address space spans every annotation;
\* the one in the top section ends at the last address there is.
InlineProcedures ==
    { <<[section |-> 1, offset |-> 0], MaxOffset + MaxLen>>,
      <<[section |-> 2, offset |-> 0], MaxOffset + 1>> }

\* The inlinee maps of the module: with a descriptor for both sites, or
\* without the one of site A.
InlineeMaps == {{1, 2}, {2}}

InlineModulesOf(proc) ==
    { << [symbols |-> symbols, line_program_err |-> FALSE, inlinees_err |-> FALSE,
          inlinees |-> inlinees, lines |-> OuterLines(proc[1])] >> :
      symbols \in UNION { InlineSymbols(proc[1], proc[2], a, b) :
                            a \in AnnotationStreams(1, 10, 2),
                            b \in AnnotationStreams(2, 20, 1) },
      inlinees \in InlineeMaps }

InlineModules == UNION { InlineModulesOf(proc) : proc \in InlineProcedures }

InitInline ==
    /\ string_table = TRUE
    /\ overflow_checks \in BOOLEAN
    /\ \E mods \in InlineModules : InitContext(mods)

NextInline == \E probe \in Probes : FindFrames(probe)

SpecInline == InitInline /\ [][NextInline]_vars

-----------------------------------------------------------------------------
(* The inline walk against a scan of the whole table (C10).                 *)

\* The last call was a find_frames that returned frames.
FramesReturned ==
    /\ call.op = "find_frames"
    /\ call.result.ok
    /\ IsSome(call.result.value)

\* The frames it returned, innermost first.
ReturnedFrames == Unwrap(call.result.value).frames

\* The inline-range table cached for the procedure it resolved.
TableOfCall ==
    Unwrap(procedure_cache[Unwrap(call.result.value).procedure_start_rva].inline_ranges)

\* The ranges of the table at depth d that contain the probe.
Containing(table, d, probe) ==
    {i \in 1..Len(table) : /\ table[i].call_depth = d
                           /\ table[i].start_rva <= probe
                           /\ probe < table[i].end_rva}

\* The first depth at which a scan of the whole table finds no such range.
ReferenceDepth(table, probe) ==
    CHOOSE d \in 0..Len(table) :
        /\ Containing(table, d, probe) = {}
        /\ \A e \in 0..(d - 1) : Containing(table, e, probe) # {}

\* The frames are those of the scan: one inline frame per depth below
\* ReferenceDepth, each built from a range of its depth that contains the
\* probe, the deepest first and the procedure's frame last.
FramesMatchReference ==
    LET table == TableOfCall
        probe == call.arg
        frames == ReturnedFrames
        depth == ReferenceDepth(table, probe)
    IN  /\ Len(frames) = depth + 1
        /\ \A d \in 0..(depth - 1) :
              \E i \in Containing(table, d, probe) :
                  frames[depth - d] = InlineFrame(string_table, table[i])
        /\ frames[Len(frames)].function
              = compute_procedure_name(Unwrap(lookup_proc(procedures, probe)))

DisjointPerDepth(table) ==
    /\ \A i \in 1..Len(table) : table[i].start_rva < table[i].end_rva
    /\ \A i, j \in 1..Len(table) :
          (i # j /\ table[i].call_depth = table[j].call_depth)
              => (table[i].end_rva <= table[j].start_rva
                  \/ table[j].end_rva <= table[i].start_rva)

-----------------------------------------------------------------------------
(* find_frames against find_function (C2).                                  *)

\* A Procedure and a ProcedureFrames name the same procedure: the same
\* procedure_start_rva, and the outermost frame carries the function.
SameProcedure(procedure, procedure_frames) ==
    /\ Len(procedure_frames.frames) > 0
    /\ procedure_frames.procedure_start_rva = procedure.procedure_start_rva
    /\ procedure_frames.frames[Len(procedure_frames.frames)].function = procedure.function

\* What find_function(p) returns when it is called next.
FindFunctionNext(p) == find_function(procedure_cache, procedures, p).result

\* C2: whenever find_frames(p) returns Some(PF), PF.frames is non-empty,
\* PF.procedure_start_rva is the procedure_start_rva of find_function(p) and
\* the last frame carries find_function(p).function: for the find_function
\* called after it, and for the one called right before it, whatever
\* lookups came earlier.
C2_FramesAgreeWithFunction ==
    /\ [](FramesReturned =>
             /\ IsSome(FindFunctionNext(call.arg).value)
             /\ SameProcedure(Unwrap(FindFunctionNext(call.arg).value),
                              Unwrap(call.result.value)))
    /\ [][(/\ call.op = "find_function"
           /\ call'.op = "find_frames"
           /\ call'.arg = call.arg
           /\ call'.result.ok
           /\ IsSome(call'.result.value))
          => (/\ IsSome(call.result.value)
              /\ SameProcedure(Unwrap(call.result.value), Unwrap(call'.result.value)))]_vars

\* find_frames returned three frames for a procedure whose name an earlier
\* lookup had already cached.
C2_Witness ==
    /\ FramesReturned
    /\ Len(ReturnedFrames) = 3
    /\ "name" \notin call.computed
    /\ "lines" \in call.computed

-----------------------------------------------------------------------------
(* The gap workaround seen through find_frames (C4).                        *)

\* The input holds site B inside site A.
Nested == modules[1].symbols[3].kind = "InlineSite"

SiteA == modules[1].symbols[2]

SiteB == modules[1].symbols[3]

\* Site A has no annotation that yields a range: its annotations are missing.
ParentAnnotationsMissing == \A k \in 1..Len(SiteA.annotations) : SiteA.annotations[k].length = 0

\* The annotations of site B whose range, as recorded, contains the probe.
ChildAnnotationsCovering(probe) ==
    {k \in 1..Len(SiteB.annotations) :
        \E i \in 1..Len(TableOfCall) :
            /\ TableOfCall[i].inlinee = SiteB.inlinee
            /\ TableOfCall[i].line_start = Some(SiteB.annotations[k].line_start)
            /\ TableOfCall[i].start_rva <= probe
            /\ probe < TableOfCall[i].end_rva}

\* The case of the claim: frames were returned for a probe inside a child
\* range while the parent has no annotations of its own.
GapCase ==
    /\ FramesReturned
    /\ Nested
    /\ ParentAnnotationsMissing
    /\ ChildAnnotationsCovering(call.arg) # {}

\* The three frames of the case, `parent_file` being the file of the parent's frame.
GapFrames(annotation, parent_file) ==
    /\ Len(ReturnedFrames) = 3
    /\ ReturnedFrames[1].function = Some(<<"id", SiteB.inlinee>>)
    /\ ReturnedFrames[1].file = Some(<<"file", annotation.file_index>>)
    /\ ReturnedFrames[1].line = Some(annotation.line_start)
    /\ ReturnedFrames[2].function = Some(<<"id", SiteA.inlinee>>)
    /\ ReturnedFrames[2].file = parent_file
    /\ ReturnedFrames[2].line = None
    /\ ReturnedFrames[3].function = Some(<<"fn", procedures[1].name, procedures[1].type_index>>)

\* C4 as claimed: the child's frame with the child's file and line, a parent
\* inline frame with the child's file and no line, then the procedure's frame.
C4_ParentHasChildFile ==
    GapCase => \E k \in ChildAnnotationsCovering(call.arg) :
                  GapFrames(SiteB.annotations[k],
                            Some(<<"file", SiteB.annotations[k].file_index>>))

\* C4, amended: the child's frame with the child's file and line, a parent
\* inline frame with no file (the fallback file is the first file of the
\* parent's own annotations, of which there is none) and no line, then the
\* procedure's frame.
C4_ParentHasNoFile ==
    GapCase => \E k \in ChildAnnotationsCovering(call.arg) :
                  GapFrames(SiteB.annotations[k], None)

\* The case was reached with a string table present, so that the child's
\* file resolves to a name.
C4_Witness ==
    /\ GapCase
    /\ string_table
    /\ IsSome(ReturnedFrames[1].file)

-----------------------------------------------------------------------------
(* The caches (C5, C6, C7).                                                 *)

ModuleIndexes == 0..(Len(modules) - 1)

StartRvas == {procedures[k].start_rva : k \in 1..Len(procedures)}

ProcedureSlots == StartRvas \X {"name", "lines", "inline_ranges"}

\* The content of a slot: None while nothing is stored.
ModuleSlot(cache, module_index) ==
    IF module_index \in DOMAIN cache THEN Some(cache[module_index]) ELSE None

ProcedureSlot(cache, slot) ==
    IF slot[1] \in DOMAIN cache
    THEN (IF slot[2] = "name" THEN cache[slot[1]].name
          ELSE IF slot[2] = "lines" THEN cache[slot[1]].lines
          ELSE cache[slot[1]].inline_ranges)
    ELSE None

\* C5: of two successive successful find_frames(p), the second returns what
\* the first returned and runs no decode step: module info, name, line list
\* and inline-range list all come from the caches.
C5_SecondCallFromCache ==
    [][(/\ call.op = "find_frames"
        /\ call.result.ok
        /\ call'.op = "find_frames"
        /\ call'.arg = call.arg
        /\ call'.result.ok)
       => (/\ call'.result = call.result
           /\ call'.computed = {})]_vars

\* A find_frames that returned three frames repeated the call before it.
C5_Witness ==
    /\ FramesReturned
    /\ call.repeats
    /\ Len(ReturnedFrames) = 3

\* The step call' failed in, its procedure, and whether it failed at all.
FailedCallNext == call'.op = "find_frames" /\ FailedStep(call'.result) # "none"

FailedProcedureNext == Unwrap(lookup_proc(procedures, call'.arg))

\* The slot of the failed step is empty after the call.
FailedSlotEmptyNext ==
    IF FailedStep(call'.result) = "module"
    THEN ModuleSlot(module_cache', FailedProcedureNext.module_index) = None
    ELSE ProcedureSlot(procedure_cache',
                       <<FailedProcedureNext.start_rva, FailedStep(call'.result)>>) = None

\* Every cache slot holds after the call what it held before.
AllSlotsKeptNext ==
    /\ \A m \in ModuleIndexes : ModuleSlot(module_cache', m) = ModuleSlot(module_cache, m)
    /\ \A slot \in ProcedureSlots :
          ProcedureSlot(procedure_cache', slot) = ProcedureSlot(procedure_cache, slot)

\* Every cache slot that was filled before the call holds the same after it.
FilledSlotsKeptNext ==
    /\ \A m \in ModuleIndexes :
          IsSome(ModuleSlot(module_cache, m))
              => ModuleSlot(module_cache', m) = ModuleSlot(module_cache, m)
    /\ \A slot \in ProcedureSlots :
          IsSome(ProcedureSlot(procedure_cache, slot))
              => ProcedureSlot(procedure_cache', slot) = ProcedureSlot(procedure_cache, slot)

\* The find_frames after a failed one for the same procedure runs the
\* failed step again.
RetriedNext ==
    (call'.op = "find_frames" /\ call'.retry # "none") => call'.retry \in call'.computed

\* C6 as claimed: a failed decode step returns the error, leaves its own
\* slot empty and every other slot with its previous content, and the next
\* find_frames for the procedure runs the step again.
C6_OtherSlotsUntouched ==
    [][/\ FailedCallNext => (FailedSlotEmptyNext /\ AllSlotsKeptNext)
       /\ RetriedNext]_vars

\* C6, amended: a failed decode step returns the error, leaves its own slot
\* empty and every slot that was filled with its previous content (the
\* slots of the steps that succeeded before it in the same call may have
\* been filled), and the next find_frames for the procedure runs the step
\* again.
C6_FailedStepRetried ==
    [][/\ FailedCallNext => (FailedSlotEmptyNext /\ FilledSlotsKeptNext)
       /\ RetriedNext]_vars

\* The walk of the nested symbols failed a second time for procedure 0: name
\* and lines are cached, the inline ranges are not.
C6_Witness ==
    /\ call.op = "find_frames"
    /\ ~call.result.ok
    /\ call.result.error = "symbols"
    /\ call.retry = "inline_ranges"
    /\ "inline_ranges" \in call.computed
    /\ IsSome(ProcedureSlot(procedure_cache, <<0, "lines">>))
    /\ ProcedureSlot(procedure_cache, <<0, "inline_ranges">>) = None

\* C7 as claimed: an entry of the module cache or of the procedure cache,
\* once inserted, is never evicted and never mutated.
C7_EntriesNeverMutated ==
    [][/\ \A m \in DOMAIN module_cache :
             m \in DOMAIN module_cache' /\ module_cache'[m] = module_cache[m]
       /\ \A rva \in DOMAIN procedure_cache :
             rva \in DOMAIN procedure_cache' /\ procedure_cache'[rva] = procedure_cache[rva]]_vars

\* C7, amended: an entry is never evicted, an entry of the module cache is
\* never mutated, and a slot (name, lines, inline_ranges) of a procedure
\* cache entry never changes once it is filled; the empty slots of an entry
\* are filled in place by later calls.
C7_FilledSlotsNeverMutated ==
    [][/\ \A m \in DOMAIN module_cache :
             m \in DOMAIN module_cache' /\ module_cache'[m] = module_cache[m]
       /\ \A rva \in DOMAIN procedure_cache :
             /\ rva \in DOMAIN procedure_cache'
             /\ \A slot \in {rva} \X {"name", "lines", "inline_ranges"} :
                   IsSome(ProcedureSlot(procedure_cache, slot))
                       => ProcedureSlot(procedure_cache', slot)
                              = ProcedureSlot(procedure_cache, slot)]_vars

\* A find_frames filled the lines and inline ranges of an entry that an
\* earlier call had inserted with its name; both modules and both
\* procedures are cached.
C7_Witness ==
    /\ FramesReturned
    /\ call.computed = {"module", "lines", "inline_ranges"}
    /\ DOMAIN module_cache = ModuleIndexes
    /\ Cardinality(DOMAIN procedure_cache) = 2

-----------------------------------------------------------------------------
(* The procedure iterator (C8).                                             *)

\* What the iterators have yielded so far is the index, in order.
YieldsTheIndex ==
    \A i \in DOMAIN iters :
        /\ Len(iters[i].yielded) <= procedure_count(procedures)
        /\ \A k \in 1..Len(iters[i].yielded) :
              iters[i].yielded[k].procedure_start_rva = procedures[k].start_rva
        /\ \A k \in 1..(Len(iters[i].yielded) - 1) :
              iters[i].yielded[k].procedure_start_rva
                  < iters[i].yielded[k + 1].procedure_start_rva
        /\ iters[i].done => Len(iters[i].yielded) = procedure_count(procedures)
        /\ \A j \in DOMAIN iters :
              (iters[i].done /\ iters[j].done) => iters[i].yielded = iters[j].yielded

\* A next() that returned None has ended its iterator.
NoneEnds == (call.op = "next" /\ call.result.value = None) => iters[call.arg].done

\* C8: an iterator yields one item per index entry, procedure_count() in
\* all, with strictly ascending procedure_start_rva, then None on every
\* further call; two iterators that ran to the end yielded the same
\* sequence.
C8_IterProcedures ==
    /\ [](YieldsTheIndex /\ NoneEnds)
    /\ [][\A i \in DOMAIN iters :
             (iters[i].done /\ call'.op = "next" /\ call'.arg = i)
                 => (call'.result.value = None /\ iters'[i] = iters[i])]_vars

\* Both iterators ran over an index of three entries to their end, and the
\* last call was a next() that returned None.
C8_Witness ==
    /\ procedure_count(procedures) = 3
    /\ DOMAIN iters = Iterators
    /\ \A i \in DOMAIN iters : iters[i].done /\ Len(iters[i].yielded) = 3
    /\ call.op = "next"
    /\ call.result.value = None

-----------------------------------------------------------------------------
(* The inline-range table, depth by depth (C11, C12).                       *)

\* The inline-range tables the procedure cache holds.
CachedTables ==
    {Unwrap(procedure_cache[rva].inline_ranges) :
        rva \in {r \in DOMAIN procedure_cache : IsSome(procedure_cache[r].inline_ranges)}}

\* The second inline site of the input: inside the first, or after it.
SecondSite == IF Nested THEN modules[1].symbols[3] ELSE modules[1].symbols[4]

\* The addresses annotation k of a site covers, as the PDB states them.
AnnotatedAddresses(site, k) ==
    LET start == procedures[1].start_rva + site.annotations[k].code_offset
    IN  start..(start + site.annotations[k].length - 1)

\* The addresses a site's own annotations cover.
OwnAddresses(site) ==
    UNION {AnnotatedAddresses(site, k) : k \in 1..Len(site.annotations)}

\* No two annotations of the site share an address.
OwnAnnotationsDisjoint(site) ==
    \A k, l \in 1..Len(site.annotations) :
        k # l => AnnotatedAddresses(site, k) \cap AnnotatedAddresses(site, l) = {}

\* The input is well-formed: the annotations of one site do not overlap, and
\* two sites of the same depth cover no common address.
SitesWellFormed ==
    /\ OwnAnnotationsDisjoint(SiteA)
    /\ OwnAnnotationsDisjoint(SecondSite)
    /\ ~Nested => OwnAddresses(SiteA) \cap OwnAddresses(SecondSite) = {}

\* At every depth at most one range of the table contains a given probe.
AtMostOnePerDepth(table) ==
    \A probe \in 0..(U32Wrap - 1) : \A d \in 0..Len(table) :
        Cardinality(Containing(table, d, probe)) <= 1

\* C11 as claimed: in the inline-range table built for any procedure, for
\* every probe and every call depth d at most one InlineRange with
\* call_depth = d satisfies start_rva <= probe < end_rva.
C11_AtMostOnePerDepthAnyInput ==
    \A table \in CachedTables : AtMostOnePerDepth(table)

\* C11, amended: in the inline-range table built for a procedure whose
\* inline sites are well-formed (the annotations of one site do not overlap
\* and two sites of one depth cover no common address), for every probe and
\* every call depth d at most one InlineRange with call_depth = d satisfies
\* start_rva <= probe < end_rva; the ranges fabricated by the gap
\* workaround included.
C11_AtMostOnePerDepth ==
    SitesWellFormed => \A table \in CachedTables : AtMostOnePerDepth(table)

\* A table was built from well-formed nested sites and holds, at depth 0,
\* both a range of the parent's own annotations and a fabricated one, next
\* to the child's range at depth 1.
C11_Witness ==
    /\ SitesWellFormed
    /\ Nested
    /\ \E table \in CachedTables :
          /\ \E i, j \in 1..Len(table) :
                /\ table[i].call_depth = 0 /\ IsSome(table[i].line_start)
                /\ table[j].call_depth = 0 /\ table[j].line_start = None
          /\ \E i \in 1..Len(table) : table[i].call_depth = 1

\* Every address a range of depth d + 1 covers is covered by a range of
\* depth d that carries the inlinee of the enclosing site.
CoveredByParent(table) ==
    \A i \in 1..Len(table) :
        table[i].call_depth > 0 =>
            \A rva \in table[i].start_rva..(table[i].end_rva - 1) :
                \E j \in Containing(table, table[i].call_depth - 1, rva) :
                    table[j].inlinee = SiteA.inlinee

\* The walk of the last find_frames did not stop at a depth while a range
\* of the next depth contains the probe: it stopped at depth Len(frames) - 1.
WalkReachesCoveredDepths ==
    FramesReturned => Containing(TableOfCall, Len(ReturnedFrames), call.arg) = {}

\* C12, first half: in every table built, every address covered at depth
\* d + 1 is covered at depth d by a range with the parent's inlinee, also
\* when the parent's inlinee descriptor is missing or its annotations are
\* empty.
C12_TableCoveredByParent == \A table \in CachedTables : CoveredByParent(table)

\* C12 as claimed, for well-formed inline sites: every address covered at
\* depth d + 1 is covered at depth d by a range with the parent's inlinee,
\* and hence the inline walk of find_frames never stops at depth d while a
\* range at depth d + 1 contains the probe.
C12_WalkNeverStopsEarly ==
    /\ C12_TableCoveredByParent
    /\ SitesWellFormed => WalkReachesCoveredDepths

====
